---- MODULE Spec2Model ----
(***************************************************************************)
(* Model of the marketing-copy app: the content-generation pipeline        *)
(* (generate_content and the collaborators it talks to), the keyword       *)
(* extractor, the generated_content table and the Generate Content page.   *)
(*                                                                         *)
(* Python strings are TLA+ strings; Len, \o and SubSeq work on them        *)
(* character by character.  Python values whose type matters (None, str,   *)
(* list, dict, int, bool) are tagged records [t |-> type, v |-> payload].  *)
(***************************************************************************)
EXTENDS Integers, Sequences, FiniteSets, TLC

\* one invocation of generate_content
VARIABLES pc, openai, args, calls, requests, content, result, errors, path

\* one invocation of extract_keywords
VARIABLES kw_pc, kw_text, kw_top_n, kw_result

\* the generated_content table, with the calls made on it
VARIABLES rows, next_id, now, saved, deleted, last_op

\* one browser session: st.session_state and what its last script run did
VARIABLES session, last_run, shown_owner

pipeVars == <<pc, openai, args, calls, requests, content, result, errors, path>>

kwVars == <<kw_pc, kw_text, kw_top_n, kw_result>>

dbVars == <<rows, next_id, now, saved, deleted, last_op>>

appVars == <<session, last_run, shown_owner>>

vars == <<pipeVars, kwVars, dbVars, appVars>>

(***************************************************************************)
(* Bounds of the model                                                     *)
(***************************************************************************)
MaxKw == 6

(***************************************************************************)
(* Python values                                                           *)
(***************************************************************************)
PyNone == [t |-> "None"]

PyStr(s) == [t |-> "str", v |-> s]

PyInt(s) == [t |-> "int", v |-> s]

PyBool(b) == [t |-> "bool", v |-> b]

PyList(q) == [t |-> "list", v |-> q]

PyDict(d) == [t |-> "dict", v |-> d]

EmptyDict == [k \in {} |-> PyNone]

\* list of str built from a sequence of strings
StrList(q) == PyList([i \in 1..Len(q) |-> PyStr(q[i])])

\* Python truth value, as used by `if not api_key`, `content if content else`
Truthy(x) ==
  CASE x.t = "None" -> FALSE
    [] x.t = "str"  -> x.v # ""
    [] x.t = "int"  -> x.v # "0"
    [] x.t = "bool" -> x.v
    [] x.t = "list" -> Len(x.v) > 0
    [] x.t = "dict" -> DOMAIN x.v # {}

(***************************************************************************)
(* String helpers                                                          *)
(***************************************************************************)
Char(s, i) == SubSeq(s, i, i)

\* needle occurs in haystack (used by the properties)
Contains(h, n) ==
  \E i \in 0..(Len(h) - Len(n)) : SubSeq(h, i + 1, i + Len(n)) = n

Upper == "ABCDEFGHIJKLMNOPQRSTUVWXYZ"

Lower == "abcdefghijklmnopqrstuvwxyz"

LowerChar(c) ==
  IF \E i \in 1..26 : Char(Upper, i) = c
  THEN Char(Lower, CHOOSE i \in 1..26 : Char(Upper, i) = c)
  ELSE c

RECURSIVE str_lower(_)
\* str.lower()
str_lower(s) ==
  IF s = "" THEN ""
  ELSE LowerChar(Char(s, 1)) \o str_lower(SubSeq(s, 2, Len(s)))

RECURSIVE str_remove_spaces(_)
\* str.replace(" ", "")
str_remove_spaces(s) ==
  IF s = "" THEN ""
  ELSE (IF Char(s, 1) = " " THEN "" ELSE Char(s, 1))
         \o str_remove_spaces(SubSeq(s, 2, Len(s)))

RECURSIVE str_join(_, _)
\* sep.join(list of str)
str_join(sep, q) ==
  IF Len(q) = 0 THEN ""
  ELSE IF Len(q) = 1 THEN q[1]
  ELSE q[1] \o sep \o str_join(sep, Tail(q))

\* list[:n]
Slice(q, n) == SubSeq(q, 1, IF Len(q) < n THEN Len(q) ELSE n)

(***************************************************************************)
(* json.loads, on the JSON subset the modelled responses use: objects,     *)
(* arrays, strings without escape sequences, integers, true, false, null,  *)
(* with insignificant whitespace.  Anything else fails to decode.          *)
(***************************************************************************)
Fail == [ok |-> FALSE, val |-> PyNone, pos |-> 0]

Ok(v, p) == [ok |-> TRUE, val |-> v, pos |-> p]

IsWs(c) == c \in {" ", "\n", "\t", "\r"}

IsDigit(c) == c \in {"0", "1", "2", "3", "4", "5", "6", "7", "8", "9"}

RECURSIVE SkipWs(_, _)
\* index of the first non-whitespace character at or after i
SkipWs(s, i) ==
  IF i <= Len(s) /\ IsWs(Char(s, i)) THEN SkipWs(s, i + 1) ELSE i

RECURSIVE ScanString(_, _)
\* index of the quote closing a string whose first character is at i; 0 if none
ScanString(s, i) ==
  IF i > Len(s) THEN 0
  ELSE IF Char(s, i) = "\"" THEN i
  ELSE IF Char(s, i) \in {"\\", "\n", "\t", "\r"} THEN 0
  ELSE ScanString(s, i + 1)

RECURSIVE ScanDigits(_, _)
\* index just after the run of digits starting at i
ScanDigits(s, i) ==
  IF i <= Len(s) /\ IsDigit(Char(s, i)) THEN ScanDigits(s, i + 1) ELSE i

StartsAt(s, i, lit) ==
  i + Len(lit) - 1 <= Len(s) /\ SubSeq(s, i, i + Len(lit) - 1) = lit

RECURSIVE ParseValue(_, _)
RECURSIVE ParseElements(_, _, _)
RECURSIVE ParseMembers(_, _, _)

ParseString(s, i) ==
  LET e == ScanString(s, i + 1)
  IN  IF e = 0 THEN Fail ELSE Ok(PyStr(SubSeq(s, i + 1, e - 1)), e + 1)

ParseNumber(s, i) ==
  LET d == IF Char(s, i) = "-" THEN i + 1 ELSE i
      e == ScanDigits(s, d)
  IN  IF e = d \/ (e - d > 1 /\ Char(s, d) = "0") THEN Fail
      ELSE Ok(PyInt(SubSeq(s, i, e - 1)), e)

\* the elements of an array, the first of which starts at i; acc is the list so far
ParseElements(s, i, acc) ==
  LET r == ParseValue(s, i)
      j == SkipWs(s, r.pos)
  IN  IF ~r.ok \/ j > Len(s) THEN Fail
      ELSE IF Char(s, j) = "]" THEN Ok(PyList(Append(acc, r.val)), j + 1)
      ELSE IF Char(s, j) = "," THEN ParseElements(s, SkipWs(s, j + 1), Append(acc, r.val))
      ELSE Fail

\* the members of an object, the first key of which starts at i; a repeated key keeps its last value
ParseMembers(s, i, acc) ==
  LET k == IF i <= Len(s) /\ Char(s, i) = "\"" THEN ParseString(s, i) ELSE Fail
      c == SkipWs(s, k.pos)
      r == IF k.ok /\ c <= Len(s) /\ Char(s, c) = ":"
           THEN ParseValue(s, SkipWs(s, c + 1)) ELSE Fail
      j == SkipWs(s, r.pos)
      d == (k.val.v :> r.val) @@ acc
  IN  IF ~r.ok \/ j > Len(s) THEN Fail
      ELSE IF Char(s, j) = "}" THEN Ok(PyDict(d), j + 1)
      ELSE IF Char(s, j) = "," THEN ParseMembers(s, SkipWs(s, j + 1), d)
      ELSE Fail

ParseValue(s, i) ==
  IF i > Len(s) THEN Fail
  ELSE LET c == Char(s, i)
       IN  IF c = "\"" THEN ParseString(s, i)
           ELSE IF c = "{" THEN
             LET j == SkipWs(s, i + 1)
             IN  IF j <= Len(s) /\ Char(s, j) = "}" THEN Ok(PyDict(EmptyDict), j + 1)
                 ELSE ParseMembers(s, j, EmptyDict)
           ELSE IF c = "[" THEN
             LET j == SkipWs(s, i + 1)
             IN  IF j <= Len(s) /\ Char(s, j) = "]" THEN Ok(PyList(<<>>), j + 1)
                 ELSE ParseElements(s, j, <<>>)
           ELSE IF StartsAt(s, i, "null") THEN Ok(PyNone, i + 4)
           ELSE IF StartsAt(s, i, "true") THEN Ok(PyBool(TRUE), i + 4)
           ELSE IF StartsAt(s, i, "false") THEN Ok(PyBool(FALSE), i + 5)
           ELSE IF c = "-" \/ IsDigit(c) THEN ParseNumber(s, i)
           ELSE Fail

\* json.loads(x): ok = FALSE stands for the exception it raises
\* (TypeError for a non-string, JSONDecodeError for text that is not JSON)
json_loads(x) ==
  IF x.t # "str" THEN Fail
  ELSE LET r == ParseValue(x.v, SkipWs(x.v, 1))
       IN  IF r.ok /\ SkipWs(x.v, r.pos) > Len(x.v) THEN r ELSE Fail

(***************************************************************************)
(* Static data of the pipeline                                             *)
(***************************************************************************)
PLATFORM_PROMPTS ==
  ("Google Ads" :> [system |-> "You are an expert Google Ads copywriter specializing in high-converting ad copy.",
       instructions |->
         "Generate Google Ads copy with:\n" \o
         "        - Headline (max 30 characters)\n" \o
         "        - Description (max 90 characters)\n" \o
         "        - Strong CTA\n" \o
         "        - Keyword optimization\n" \o
         "        \n" \o
         "        Focus on benefits, urgency, and relevance score optimization."])
  @@ ("Facebook Ads" :> [system |-> "You are an expert Facebook advertising specialist.",
       instructions |->
         "Generate Facebook Ad copy with:\n" \o
         "        - Attention-grabbing hook\n" \o
         "        - Engaging body text (125-150 words)\n" \o
         "        - Emotional appeal\n" \o
         "        - Clear CTA\n" \o
         "        - 3-5 relevant hashtags\n" \o
         "        \n" \o
         "        Use conversational tone and address pain points directly."])
  @@ ("Instagram" :> [system |-> "You are an Instagram marketing expert specializing in visual storytelling.",
       instructions |->
         "Generate Instagram post copy with:\n" \o
         "        - Captivating first line\n" \o
         "        - Story-driven content (150-200 words)\n" \o
         "        - Emoji integration\n" \o
         "        - Strong CTA\n" \o
         "        - 10-15 trending hashtags\n" \o
         "        \n" \o
         "        Focus on visual language and community engagement."])
  @@ ("SEO Meta Description" :> [system |-> "You are an SEO specialist focused on search engine optimization.",
       instructions |->
         "Generate SEO-optimized meta description with:\n" \o
         "        - Compelling description (150-160 characters)\n" \o
         "        - Primary keyword integration\n" \o
         "        - Benefit-focused language\n" \o
         "        - CTA or value proposition\n" \o
         "        \n" \o
         "        Optimize for click-through rate and search relevance."])
  @@ ("Landing Page" :> [system |-> "You are a conversion-focused landing page copywriter.",
       instructions |->
         "Generate landing page content with:\n" \o
         "        - Powerful headline\n" \o
         "        - Subheadline\n" \o
         "        - 3-4 benefit bullet points\n" \o
         "        - Social proof statement\n" \o
         "        - Primary and secondary CTA\n" \o
         "        \n" \o
         "        Focus on conversion optimization and value proposition."])

BuildPrompt(config, a) ==
  "\n" \o
  config.instructions \o
  "\n" \o
  "\n" \o
  "Product Information:\n" \o
  "- Name: " \o
  a.product_name \o
  "\n" \o
  "- Description: " \o
  a.description \o
  "\n" \o
  "- Target Audience: " \o
  a.audience \o
  "\n" \o
  "- Brand Tone: " \o
  a.tone \o
  "\n" \o
  "- Keywords: " \o
  str_join(", ", a.keywords) \o
  "\n" \o
  "\n" \o
  "Return the response in the following JSON format:\n" \o
  "{\n" \o
  "    \"headline\": \"compelling headline\",\n" \o
  "    \"body\": \"main content body\",\n" \o
  "    \"cta\": \"call to action\",\n" \o
  "    \"hashtags\": [\"hashtag1\", \"hashtag2\", \"hashtag3\"]\n" \o
  "}\n"

\* the number of keywords kept as hashtags, keywords[:5]
HashtagLimit == 5

\* max_tokens of the chat-completion request
MaxTokens == 800

(***************************************************************************)
(* The inputs the model draws from                                         *)
(***************************************************************************)
ApiKeys == {PyNone, PyStr(""), PyStr("sk-demo")}

Platforms == DOMAIN PLATFORM_PROMPTS \cup {"TikTok"}

ProductNames == {"Smart Water Bottle", "Eco Cup"}

Descriptions == {"Tracks your hydration."}

Audiences == {"busy professionals", ""}

Tones == {"Professional", "Casual"}

\* what extract_keywords yields for the default product description of the page
KeywordSource ==
  <<"water", "smart", "bottle", "tracks", "hydration",
    "reminds", "you", "drink", "syncs", "fitness">>

\* the keyword lists tried: the runs of at most MaxKw consecutive keywords of KeywordSource
KeywordLists ==
  {<<>>} \cup
  {SubSeq(KeywordSource, i, i + n - 1) :
     <<i, n>> \in {w \in (1..Len(KeywordSource)) \X (1..MaxKw) :
                     w[1] + w[2] - 1 <= Len(KeywordSource)}}

\* openai.__version__ of the installed package, or "missing" when the import fails
OpenAIVersions == {"missing", "0.28.1", "1.35.0"}

\* exceptions the call to the collaborator raises
CallErrors == {"Incorrect API key provided", "Connection error."}

\* message contents the collaborator returns
Contents ==
  { PyNone,
    PyStr(""),
    PyStr("Here is your ad copy: Hydrate smarter!"),
    PyStr("{\"headline\": \"Hydrate Smarter\", \"body\": \"Track every sip."),
    PyStr("{\"headline\": \"Hydrate Smarter\", \"body\": \"Track every sip.\", "
            \o "\"cta\": \"Buy Now\", \"hashtags\": [\"hydration\", \"smart\"]}"),
    PyStr("{\"headline\": null, \"body\": \"Track every sip.\", "
            \o "\"cta\": \"Buy Now\", \"hashtags\": []}"),
    PyStr("{\"title\": \"Hydrate Smarter\", \"text\": \"Track every sip.\"}"),
    PyStr("{}"),
    PyStr("null"),
    PyStr("[\"Hydrate Smarter\", \"Buy Now\"]") }

\* response.choices of a completed call, as the list of its message contents
ChoiceLists == {<<>>} \cup {<<c>> : c \in Contents}

NoArgs ==
  [api_key |-> PyNone, platform |-> "", product_name |-> "", description |-> "",
   audience |-> "", tone |-> "", keywords |-> <<>>]

(***************************************************************************)
(* generate_content, piece by piece                                        *)
(***************************************************************************)
\* variant: `if api_key is None`, which lets the empty string through
KeyMissingOnlyNone(api_key) == api_key.t = "None"

\* what generate_content returns for brief a when there is no credential
NoKeyResult(a) == PyNone

\* `if not api_key`
KeyMissing(api_key) == ~Truthy(api_key)

\* variant: PLATFORM_PROMPTS.get(platform, PLATFORM_PROMPTS["Google Ads"])
LookupPlatformWithDefault(platform) ==
  [ok |-> TRUE,
   config |-> IF platform \in DOMAIN PLATFORM_PROMPTS
              THEN PLATFORM_PROMPTS[platform] ELSE PLATFORM_PROMPTS["Google Ads"]]

\* PLATFORM_PROMPTS[platform]; ok = FALSE stands for the KeyError
LookupPlatform(platform) ==
  IF platform \in DOMAIN PLATFORM_PROMPTS
  THEN [ok |-> TRUE, config |-> PLATFORM_PROMPTS[platform]]
  ELSE [ok |-> FALSE, config |-> [system |-> "", instructions |-> ""]]

\* the one chat-completion request, in the call shape the installed version has
ChatRequest(version, a, config) ==
  [shape |-> IF SubSeq(version, 1, 2) = "0."
             THEN "openai.ChatCompletion.create"
             ELSE "client.chat.completions.create",
   api_key |-> a.api_key.v,
   model |-> "gpt-3.5-turbo",
   system |-> config.system,
   user |-> BuildPrompt(config, a),
   temperature |-> "0.7",
   max_tokens |-> MaxTokens]

\* variant: the body is the returned content whatever it is
FallbackRecordRawBody(a, c) ==
  PyDict([headline |-> PyStr("Amazing " \o a.product_name \o " - Limited Time Offer!"),
          body |-> c,
          cta |-> PyStr("Shop Now"),
          hashtags |-> IF Len(a.keywords) > 0
                       THEN StrList(Slice(a.keywords, HashtagLimit))
                       ELSE StrList(<<"product", "sale", "new">>)])

\* variant: the keywords are not cut to five
FallbackRecordAllKeywords(a, c) ==
  PyDict([headline |-> PyStr("Amazing " \o a.product_name \o " - Limited Time Offer!"),
          body |-> IF Truthy(c) THEN c
                   ELSE PyStr("Discover the incredible " \o a.product_name
                              \o ". Perfect for " \o a.audience
                              \o ". Experience the difference today!"),
          cta |-> PyStr("Shop Now"),
          hashtags |-> IF Len(a.keywords) > 0
                       THEN StrList(a.keywords)
                       ELSE StrList(<<"product", "sale", "new">>)])

\* the record built when the response does not decode
FallbackRecord(a, c) ==
  PyDict([headline |-> PyStr("Amazing " \o a.product_name \o " - Limited Time Offer!"),
          body |-> IF Truthy(c) THEN c
                   ELSE PyStr("Discover the incredible " \o a.product_name
                              \o ". Perfect for " \o a.audience
                              \o ". Experience the difference today!"),
          cta |-> PyStr("Shop Now"),
          hashtags |-> IF Len(a.keywords) > 0
                       THEN StrList(Slice(a.keywords, HashtagLimit))
                       ELSE StrList(<<"product", "sale", "new">>)])

\* variant: the product name is used as a tag as it is, spaces and capitals included
DemoRecordPlainNameTag(a) ==
  PyDict([headline |-> PyStr("Amazing " \o a.product_name \o " - Limited Time Offer!"),
          body |-> PyStr("Introducing our incredible " \o a.product_name
                         \o "! Perfect for " \o a.audience
                         \o ". Designed with " \o a.tone
                         \o " tone. Experience premium quality and exceptional value."
                         \o " Don't miss out on this special opportunity!"),
          cta |-> PyStr(IF a.tone # "Professional" THEN "Shop Now" ELSE "Get Started"),
          hashtags |-> IF Len(a.keywords) > 0
                       THEN StrList(Slice(a.keywords, HashtagLimit))
                       ELSE StrList(<<a.product_name, "new", "sale", "quality">>)])

\* variant: the headline is built from the lowercased product name
DemoRecordLowerHeadline(a) ==
  PyDict([headline |-> PyStr("Amazing " \o str_lower(a.product_name) \o " - Limited Time Offer!"),
          body |-> PyStr("Introducing our incredible " \o a.product_name
                         \o "! Perfect for " \o a.audience
                         \o ". Designed with " \o a.tone
                         \o " tone. Experience premium quality and exceptional value."
                         \o " Don't miss out on this special opportunity!"),
          cta |-> PyStr(IF a.tone # "Professional" THEN "Shop Now" ELSE "Get Started"),
          hashtags |-> IF Len(a.keywords) > 0
                       THEN StrList(Slice(a.keywords, HashtagLimit))
                       ELSE StrList(<<str_lower(str_remove_spaces(a.product_name)),
                                      "new", "sale", "quality">>)])

\* the sample record built by `except Exception`
DemoRecord(a) ==
  PyDict([headline |-> PyStr("Amazing " \o a.product_name \o " - Limited Time Offer!"),
          body |-> PyStr("Introducing our incredible " \o a.product_name
                         \o "! Perfect for " \o a.audience
                         \o ". Designed with " \o a.tone
                         \o " tone. Experience premium quality and exceptional value."
                         \o " Don't miss out on this special opportunity!"),
          cta |-> PyStr(IF a.tone # "Professional" THEN "Shop Now" ELSE "Get Started"),
          hashtags |-> IF Len(a.keywords) > 0
                       THEN StrList(Slice(a.keywords, HashtagLimit))
                       ELSE StrList(<<str_lower(str_remove_spaces(a.product_name)),
                                      "new", "sale", "quality">>)])

\* `try: json.loads(content)  except: <fallback>`, then `return content_json`
ParseResponse(a, c) ==
  LET r == json_loads(c)
  IN  IF r.ok THEN [value |-> r.val, by |-> "LiveGenerated"]
      ELSE [value |-> FallbackRecord(a, c), by |-> "FallbackParsed"]

(***************************************************************************)
(* The state machine: one invocation of generate_content at a time         *)
(***************************************************************************)
\* no invocation of extract_keywords under way
KwIdle ==
  /\ kw_pc = "idle"
  /\ kw_text = ""
  /\ kw_top_n = 0
  /\ kw_result = <<>>

NoOp == [op |-> "none", id |-> 0, user_id |-> 0]

\* the table as init_db creates it, and no call made on it yet
DbEmpty ==
  /\ rows = <<>>
  /\ next_id = 1
  /\ now = 0
  /\ saved = {}
  /\ deleted = {}
  /\ last_op = NoOp

NoRun ==
  [event |-> "none", product_name |-> "", generate_calls |-> 0, save_calls |-> 0]

\* a new browser session after its first script run: main() has set logged_in
AppFresh ==
  /\ session = [logged_in |-> FALSE]
  /\ last_run = NoRun
  /\ shown_owner = 0

\* no invocation of generate_content under way
PipeIdle ==
  /\ pc = "idle"
  /\ args = NoArgs
  /\ requests = <<>>
  /\ calls = 0
  /\ content = PyNone
  /\ result = PyNone
  /\ errors = <<>>
  /\ path = "none"

Init ==
  /\ openai \in OpenAIVersions
  /\ PipeIdle
  /\ KwIdle
  /\ DbEmpty
  /\ AppFresh

\* generate_content up to its outbound call, or to the return that comes before it
generate_content(api_key, platform, product_name, description, audience, tone, keywords) ==
  LET a == [api_key |-> api_key, platform |-> platform, product_name |-> product_name,
            description |-> description, audience |-> audience, tone |-> tone,
            keywords |-> keywords]
      p == LookupPlatform(platform)
  IN  /\ pc = "idle"
      /\ args' = a
      /\ content' = PyNone
      /\ UNCHANGED <<openai, kwVars, dbVars, appVars>>
      /\ IF KeyMissing(api_key) THEN
           /\ errors' = <<"API key is required">>
           /\ result' = NoKeyResult(a)
           /\ path' = "NoKey"
           /\ pc' = "done"
           /\ UNCHANGED <<requests, calls>>
         ELSE IF openai = "missing" THEN
           /\ errors' = <<"OpenAI package not installed. Please add 'openai' to requirements.txt">>
           /\ result' = PyNone
           /\ path' = "ImportError"
           /\ pc' = "done"
           /\ UNCHANGED <<requests, calls>>
         ELSE IF ~p.ok THEN
           /\ errors' = <<"Error generating content: '" \o platform \o "'">>
           /\ result' = DemoRecord(a)
           /\ path' = "Demo"
           /\ pc' = "done"
           /\ UNCHANGED <<requests, calls>>
         ELSE
           /\ requests' = Append(requests, ChatRequest(openai, a, p.config))
           /\ calls' = calls + 1
           /\ pc' = "awaiting"
           /\ UNCHANGED <<errors, result, path>>

\* variant: the handler answers None, as the ImportError handler does
collaborator_raises_returns_none(e) ==
  /\ pc = "awaiting"
  /\ errors' = <<"Error generating content: " \o e>>
  /\ result' = PyNone
  /\ path' = "Demo"
  /\ pc' = "done"
  /\ UNCHANGED <<openai, args, requests, calls, content, kwVars, dbVars, appVars>>

\* variant: the handler sends the request once more
collaborator_raises_retries(e) ==
  /\ pc = "awaiting"
  /\ requests' = Append(requests, requests[Len(requests)])
  /\ calls' = calls + 1
  /\ UNCHANGED <<pc, openai, args, content, result, errors, path, kwVars, dbVars, appVars>>

\* the outbound call raises: `except Exception` answers with the sample record
collaborator_raises(e) ==
  /\ pc = "awaiting"
  /\ errors' = <<"Error generating content: " \o e>>
  /\ result' = DemoRecord(args)
  /\ path' = "Demo"
  /\ pc' = "done"
  /\ UNCHANGED <<openai, args, requests, calls, content, kwVars, dbVars, appVars>>

\* the outbound call returns: response.choices[0].message.content is decoded
collaborator_returns(choices) ==
  /\ pc = "awaiting"
  /\ IF Len(choices) = 0 THEN
       /\ errors' = <<"Error generating content: list index out of range">>
       /\ result' = DemoRecord(args)
       /\ path' = "Demo"
       /\ UNCHANGED content
     ELSE
       /\ content' = choices[1]
       /\ result' = ParseResponse(args, choices[1]).value
       /\ path' = ParseResponse(args, choices[1]).by
       /\ UNCHANGED errors
  /\ pc' = "done"
  /\ UNCHANGED <<openai, args, requests, calls, kwVars, dbVars, appVars>>

\* the caller has the result; the next invocation starts afresh
caller_resumes ==
  /\ pc = "done"
  /\ pc' = "idle"
  /\ args' = NoArgs
  /\ requests' = <<>>
  /\ calls' = 0
  /\ content' = PyNone
  /\ result' = PyNone
  /\ errors' = <<>>
  /\ path' = "none"
  /\ UNCHANGED <<openai, kwVars, dbVars, appVars>>

Next ==
  \/ \E k \in ApiKeys, p \in Platforms, n \in ProductNames, d \in Descriptions,
        au \in Audiences, t \in Tones, kw \in KeywordLists :
       generate_content(k, p, n, d, au, t, kw)
  \/ \E e \in CallErrors : collaborator_raises(e)
  \/ \E ch \in ChoiceLists : collaborator_returns(ch)
  \/ caller_resumes

Spec == Init /\ [][Next]_vars

(***************************************************************************)
(* extract_keywords                                                        *)
(***************************************************************************)
\* the longest text is MaxWords pieces of WordPool joined by spaces
MaxWords == 3

\* the largest top_n tried, besides the default
MaxTopN == 2

\* top_n when the caller gives none
DefaultTopN == 10

IsLetter(c) == \E i \in 1..26 : Char(Lower, i) = c

\* \w of the pattern, on lowercased text: a letter, a digit or the underscore
IsWordChar(c) == IsLetter(c) \/ IsDigit(c) \/ c = "_"

\* \b at position p, that is between the characters p - 1 and p of s
WordBoundary(s, p) ==
  LET before == p > 1 /\ IsWordChar(Char(s, p - 1))
      after  == p <= Len(s) /\ IsWordChar(Char(s, p))
  IN  before # after

RECURSIVE ScanLetters(_, _)
\* index just after the run of letters starting at i
ScanLetters(s, i) ==
  IF i <= Len(s) /\ IsLetter(Char(s, i)) THEN ScanLetters(s, i + 1) ELSE i

\* variant: the pattern \b[a-z]{2,}\b
MatchEndAtTwoLetters(s, i) ==
  LET ends == {k \in (i + 2)..ScanLetters(s, i) : WordBoundary(s, k)}
  IN  IF WordBoundary(s, i) /\ ends # {}
      THEN CHOOSE k \in ends : \A m \in ends : m <= k
      ELSE 0

\* the end (exclusive) of the match of \b[a-z]{3,}\b that starts at i, 0 if there
\* is none: the longest run of 3 or more letters from i that ends on a \b
MatchEndAt(s, i) ==
  LET ends == {k \in (i + 3)..ScanLetters(s, i) : WordBoundary(s, k)}
  IN  IF WordBoundary(s, i) /\ ends # {}
      THEN CHOOSE k \in ends : \A m \in ends : m <= k
      ELSE 0

RECURSIVE FindAll(_, _, _)
\* re.findall(r'\b[a-z]{3,}\b', s): the matches from position i on, left to right
FindAll(s, i, acc) ==
  IF i > Len(s) THEN acc
  ELSE LET e == MatchEndAt(s, i)
       IN  IF e = 0 THEN FindAll(s, i + 1, acc)
           ELSE FindAll(s, e, Append(acc, SubSeq(s, i, e - 1)))

stop_words ==
  {"the", "and", "for", "with", "this", "that", "have", "from", "was", "were",
   "are", "has", "had", "but", "not", "what", "which", "their", "they", "will",
   "would", "there", "been", "some", "because", "should", "could", "about",
   "when", "where", "how", "them", "then", "than", "these", "those",
   "such", "into", "more", "your", "very", "just", "also", "most", "many",
   "only", "its", "our", "after", "before", "between", "through", "during"}

\* [word for word in words if word not in stop_words]
FilterStopWords(words) == SelectSeq(words, LAMBDA w : w \notin stop_words)

RECURSIVE FirstOccurrences(_, _)
\* the keys of Counter(words), in the order a dict keeps them: first insertion
FirstOccurrences(words, acc) ==
  IF Len(words) = 0 THEN acc
  ELSE FirstOccurrences(Tail(words),
         IF \E i \in 1..Len(acc) : acc[i] = Head(words) THEN acc
         ELSE Append(acc, Head(words)))

\* Counter(words)[w]
Count(words, w) == Cardinality({i \in 1..Len(words) : words[i] = w})

\* variant: among equal counts the word met last comes first
InsertByCountLastFirst(sorted, w, words) ==
  LET ahead == {i \in 1..Len(sorted) : Count(words, sorted[i]) > Count(words, w)}
      n == Cardinality(ahead)
  IN  SubSeq(sorted, 1, n) \o <<w>> \o SubSeq(sorted, n + 1, Len(sorted))

\* w put into a list sorted by descending count, behind every word that counts
\* at least as much: the sort is stable
InsertByCount(sorted, w, words) ==
  LET ahead == {i \in 1..Len(sorted) : Count(words, sorted[i]) >= Count(words, w)}
      n == Cardinality(ahead)
  IN  SubSeq(sorted, 1, n) \o <<w>> \o SubSeq(sorted, n + 1, Len(sorted))

RECURSIVE SortByCount(_, _, _)
\* sorted(counter.items(), key=count, reverse=True), keys only
SortByCount(keys, words, acc) ==
  IF Len(keys) = 0 THEN acc
  ELSE SortByCount(Tail(keys), words, InsertByCount(acc, Head(keys), words))

\* variant: one keyword too many, [:n + 1]
most_common_one_more(words, n) ==
  IF n <= 0 THEN <<>>
  ELSE Slice(SortByCount(FirstOccurrences(words, <<>>), words, <<>>), n + 1)

\* [word for word, freq in Counter(words).most_common(n)]; nothing for n <= 0
most_common(words, n) ==
  IF n <= 0 THEN <<>>
  ELSE Slice(SortByCount(FirstOccurrences(words, <<>>), words, <<>>), n)

\* re.findall(r'\b[a-z]{3,}\b', text.lower())
Tokenize(text) == FindAll(str_lower(text), 1, <<>>)

\* the value extract_keywords(text, top_n) returns
ExtractKeywords(text, top_n) ==
  most_common(FilterStopWords(Tokenize(text)), top_n)

\* the pieces texts are made of: plain, capitalised, stop word, too short,
\* hyphen and punctuation, underscore, digits
WordPool ==
  {"run", "Run", "jump", "the", "up", "eco-friendly,", "bpa_free", "abc123"}

RECURSIVE JoinedTexts(_)
\* the texts of at most n pieces of WordPool, joined by single spaces
JoinedTexts(n) ==
  IF n = 0 THEN {""}
  ELSE LET shorter == JoinedTexts(n - 1)
       IN  shorter \cup WordPool
             \cup {t \o " " \o w : t \in shorter \ {""}, w \in WordPool}

\* the tie-break example, and a sentence of the Keyword Extractor page's default text
ExampleTexts ==
  {"run run jump jump fly",
   "Made from eco-friendly, BPA-free materials"}

Texts == JoinedTexts(MaxWords) \cup ExampleTexts

TopNs == (-1..MaxTopN) \cup {DefaultTopN}

extract_keywords(text, top_n) ==
  /\ kw_pc = "idle"
  /\ kw_text' = text
  /\ kw_top_n' = top_n
  /\ kw_result' = ExtractKeywords(text, top_n)
  /\ kw_pc' = "done"
  /\ UNCHANGED <<pipeVars, dbVars, appVars>>

\* the caller has the keywords; the next call starts afresh
keywords_taken ==
  /\ kw_pc = "done"
  /\ kw_pc' = "idle"
  /\ kw_text' = ""
  /\ kw_top_n' = 0
  /\ kw_result' = <<>>
  /\ UNCHANGED <<pipeVars, dbVars, appVars>>

InitKw ==
  /\ openai = "missing"
  /\ PipeIdle
  /\ KwIdle
  /\ DbEmpty
  /\ AppFresh

NextKw ==
  \/ \E t \in Texts, n \in TopNs : extract_keywords(t, n)
  \/ keywords_taken

SpecKw == InitKw /\ [][NextKw]_vars

(***************************************************************************)
(* The generated_content table: save_content_to_db,                        *)
(* get_user_content_history, delete_content                                *)
(***************************************************************************)
\* the number of rows ever inserted
MaxRows == 3

\* the largest user id
MaxUsers == 2

\* the last second of the clock behind CURRENT_TIMESTAMP
MaxClock == 1

\* limit of get_user_content_history when the caller gives none
HistoryLimit == 50

\* users.id of the accounts
Users == 1..MaxUsers

RECURSIVE json_dumps(_)
\* json.dumps of None, a bool, an int, a str without characters to escape, or a
\* list of these
json_dumps(x) ==
  CASE x.t = "None" -> "null"
    [] x.t = "bool" -> (IF x.v THEN "true" ELSE "false")
    [] x.t = "int"  -> x.v
    [] x.t = "str"  -> "\"" \o x.v \o "\""
    [] x.t = "list" ->
         "[" \o str_join(", ", [i \in 1..Len(x.v) |-> json_dumps(x.v[i])]) \o "]"

\* the row INSERT makes of the parameters of save_content_to_db; id is the
\* AUTOINCREMENT key and created_at the CURRENT_TIMESTAMP default
NewRow(id, time, user_id, platform, product_name, description, audience, tone, keywords, headline, body, cta, hashtags) ==
  [id |-> id, user_id |-> user_id, platform |-> platform,
   product_name |-> product_name, product_description |-> description,
   target_audience |-> audience, brand_tone |-> tone,
   keywords |-> json_dumps(keywords), headline |-> headline,
   body_content |-> body, cta |-> cta, hashtags |-> json_dumps(hashtags),
   created_at |-> time]

\* variant: DELETE ... WHERE id=?
DbDeleteByIdOnly(table, content_id, user_id) ==
  SelectSeq(table, LAMBDA r : ~(r.id = content_id))

\* DELETE FROM generated_content WHERE id=? AND user_id=?
DbDelete(table, content_id, user_id) ==
  SelectSeq(table, LAMBDA r : ~(r.id = content_id /\ r.user_id = user_id))

\* r put into a list sorted by descending created_at, behind the rows that are
\* as recent (SQLite leaves the order of equal timestamps open; rows come here
\* in rowid order)
InsertByRecency(sorted, r) ==
  LET n == Cardinality({i \in 1..Len(sorted) : sorted[i].created_at >= r.created_at})
  IN  SubSeq(sorted, 1, n) \o <<r>> \o SubSeq(sorted, n + 1, Len(sorted))

RECURSIVE SortByRecency(_, _)
SortByRecency(q, acc) ==
  IF Len(q) = 0 THEN acc
  ELSE SortByRecency(Tail(q), InsertByRecency(acc, Head(q)))

\* the columns get_user_content_history selects
HistoryItem(r) ==
  <<r.id, r.platform, r.product_name, r.headline, r.body_content, r.cta,
    r.hashtags, r.created_at>>

\* SELECT ... WHERE user_id=? ORDER BY created_at DESC LIMIT ?
DbHistory(table, user_id, limit) ==
  LET mine == SelectSeq(table, LAMBDA r : r.user_id = user_id)
      sorted == Slice(SortByRecency(mine, <<>>), limit)
  IN  [i \in 1..Len(sorted) |-> HistoryItem(sorted[i])]

\* what the calls of the model save: the sample record of one brief
DbSamples ==
  {[api_key |-> PyStr("sk-demo"), platform |-> "Google Ads", product_name |-> "Eco Cup",
    description |-> "", audience |-> "busy professionals", tone |-> "Casual",
    keywords |-> <<>>]}

\* the effect of save_content_to_db on the table variables
DbSave(user_id, platform, product_name, description, audience, tone, keywords, headline, body, cta, hashtags) ==
  /\ rows' = Append(rows, NewRow(next_id, now, user_id, platform, product_name,
                                 description, audience, tone, keywords,
                                 headline, body, cta, hashtags))
  /\ next_id' = next_id + 1
  /\ saved' = saved \cup {<<next_id, user_id>>}
  /\ last_op' = [op |-> "save", id |-> next_id, user_id |-> user_id]
  /\ UNCHANGED <<now, deleted>>

save_content_to_db(user_id, a) ==
  /\ next_id <= MaxRows
  /\ DbSave(user_id, a.platform, a.product_name, a.description, a.audience, a.tone,
            StrList(a.keywords), DemoRecord(a).v.headline, DemoRecord(a).v.body,
            DemoRecord(a).v.cta, DemoRecord(a).v.hashtags)
  /\ UNCHANGED <<pipeVars, kwVars, appVars>>

delete_content(content_id, user_id) ==
  /\ rows' = DbDelete(rows, content_id, user_id)
  /\ deleted' = (IF <<content_id, user_id>> \in saved
                 THEN deleted \cup {content_id} ELSE deleted)
  /\ last_op' = [op |-> "delete", id |-> content_id, user_id |-> user_id]
  /\ UNCHANGED <<next_id, now, saved>>
  /\ UNCHANGED <<pipeVars, kwVars, appVars>>

\* a second passes
tick ==
  /\ now < MaxClock
  /\ now' = now + 1
  /\ UNCHANGED <<rows, next_id, saved, deleted, last_op>>
  /\ UNCHANGED <<pipeVars, kwVars, appVars>>

InitDb ==
  /\ openai = "missing"
  /\ PipeIdle
  /\ KwIdle
  /\ DbEmpty
  /\ AppFresh

NextDb ==
  \/ \E u \in Users, a \in DbSamples : save_content_to_db(u, a)
  \/ \E id \in 1..MaxRows, u \in Users : delete_content(id, u)
  \/ tick

SpecDb == InitDb /\ [][NextDb]_vars

(***************************************************************************)
(* One browser session: login_page, main_app, generate_content_page,       *)
(* content_history_page                                                    *)
(***************************************************************************)
\* the number of rows one session saves
MaxSaves == 2

\* users.username of user u
UserName(u) == "user" \o ToString(u)

\* d[k] = v on a dict kept as a function
SetItem(d, k, v) == [x \in DOMAIN d \cup {k} |-> IF x = k THEN v ELSE d[x]]

\* keywords of the page: extract_keywords(product_description) if there is a
\* description, else []
PageKeywords(description) ==
  IF description # "" THEN ExtractKeywords(description, DefaultTopN) ELSE <<>>

\* what the widgets of the page hold when Generate is pressed
PageBriefs ==
  {[api_key |-> PyStr(k), platform |-> "Google Ads", product_name |-> n,
    description |-> d, audience |-> "busy professionals", tone |-> "Casual",
    keywords |-> PageKeywords(d)] :
     k \in {"", "sk-demo"}, n \in {"", "Eco Cup"}, d \in Descriptions}

\* what the outbound call of one generate_content does: it raises, or returns
\* choices
CallOutcomes ==
  {[raises |-> TRUE, choices |-> <<>>]}
    \cup {[raises |-> FALSE, choices |-> <<c>>] :
            c \in {PyStr("{\"headline\": \"Hydrate Smarter\", \"body\": \"Track every sip.\", "
                           \o "\"cta\": \"Buy Now\", \"hashtags\": [\"hydration\", \"smart\"]}"),
                   PyStr("{\"title\": \"Hydrate Smarter\", \"text\": \"Track every sip.\"}"),
                   PyStr("{}")}}

\* the value one whole invocation of generate_content returns
GenerateContentResult(version, a, o) ==
  IF KeyMissing(a.api_key) THEN NoKeyResult(a)
  ELSE IF version = "missing" THEN PyNone
  ELSE IF ~LookupPlatform(a.platform).ok THEN DemoRecord(a)
  ELSE IF o.raises \/ Len(o.choices) = 0 THEN DemoRecord(a)
  ELSE ParseResponse(a, o.choices[1]).value

\* variant: no check of the product name
NameMissingNever(product_name) == FALSE

\* not product_name
NameMissing(product_name) == product_name = ""

\* content['headline'], content['body'] and content['cta'] raise nothing
HasSavedFields(c) ==
  /\ c.t = "dict"
  /\ {"headline", "body", "cta"} \subseteq DOMAIN c.v

\* content.get('hashtags', [])
GetHashtags(c) ==
  IF "hashtags" \in DOMAIN c.v THEN c.v.hashtags ELSE PyList(<<>>)

\* the dict kept under content_metadata
ContentMetadata(a) ==
  [platform |-> a.platform, product_name |-> a.product_name,
   product_description |-> a.description, target_audience |-> a.audience,
   tone |-> a.tone, keywords |-> a.keywords]

\* the Login button with the name and password of user u
login(u) ==
  /\ ~session.logged_in
  /\ session' = SetItem(SetItem(SetItem(session, "logged_in", TRUE), "user_id", u),
                        "username", UserName(u))
  /\ last_run' = [event |-> "login", product_name |-> "", generate_calls |-> 0,
                  save_calls |-> 0]
  /\ UNCHANGED <<shown_owner, pipeVars, kwVars, dbVars>>

\* the Logout button of the sidebar
logout ==
  /\ session.logged_in
  /\ session' = SetItem(session, "logged_in", FALSE)
  /\ last_run' = [event |-> "logout", product_name |-> "", generate_calls |-> 0,
                  save_calls |-> 0]
  /\ UNCHANGED <<shown_owner, pipeVars, kwVars, dbVars>>

\* the Generate button of the Generate Content page, with the widgets holding a
\* and the outbound call, if one is made, doing o
press_generate(a, o) ==
  LET c == GenerateContentResult(openai, a, o)
      run(g, sv) == [event |-> "generate", product_name |-> a.product_name,
                     generate_calls |-> g, save_calls |-> sv]
  IN  /\ session.logged_in
      /\ UNCHANGED <<pipeVars, kwVars>>
      /\ IF NameMissing(a.product_name) THEN
           /\ last_run' = run(0, 0)
           /\ UNCHANGED <<session, shown_owner, dbVars>>
         ELSE IF ~Truthy(c) THEN
           /\ last_run' = run(1, 0)
           /\ UNCHANGED <<session, shown_owner, dbVars>>
         ELSE
           /\ session' = SetItem(SetItem(session, "generated_content", c),
                                 "content_metadata", ContentMetadata(a))
           /\ shown_owner' = session.user_id
           /\ IF HasSavedFields(c) THEN
                /\ next_id <= MaxSaves
                /\ last_run' = run(1, 1)
                /\ DbSave(session.user_id, a.platform, a.product_name, a.description,
                          a.audience, a.tone, StrList(a.keywords), c.v.headline,
                          c.v.body, c.v.cta, GetHashtags(c))
              ELSE
                \* the subscript raises before save_content_to_db is called
                /\ last_run' = run(1, 0)
                /\ UNCHANGED dbVars

\* a Delete button of the Content History page
press_delete(content_id) ==
  /\ session.logged_in
  /\ \E i \in 1..Len(DbHistory(rows, session.user_id, HistoryLimit)) :
       DbHistory(rows, session.user_id, HistoryLimit)[i][1] = content_id
  /\ rows' = DbDelete(rows, content_id, session.user_id)
  /\ deleted' = deleted \cup {content_id}
  /\ last_op' = [op |-> "delete", id |-> content_id, user_id |-> session.user_id]
  /\ last_run' = [event |-> "delete", product_name |-> "", generate_calls |-> 0,
                  save_calls |-> 0]
  /\ UNCHANGED <<next_id, now, saved, session, shown_owner, pipeVars, kwVars>>

InitApp ==
  /\ openai \in OpenAIVersions
  /\ PipeIdle
  /\ KwIdle
  /\ DbEmpty
  /\ AppFresh

NextApp ==
  \/ \E u \in Users : login(u)
  \/ logout
  \/ \E a \in PageBriefs, o \in CallOutcomes : press_generate(a, o)
  \/ \E id \in 1..MaxSaves : press_delete(id)

SpecApp == InitApp /\ [][NextApp]_vars

(***************************************************************************)
(* Properties                                                              *)
(***************************************************************************)
Fields == {"headline", "body", "cta", "hashtags"}

Returned == pc = "done"

\* r is a record with the four fields, none of them null
IsComplete(r) ==
  /\ r.t = "dict"
  /\ Fields \subseteq DOMAIN r.v
  /\ \A f \in Fields : r.v[f].t # "None"

\* r has the four fields and nothing else: three strings and a list of strings
HasCopyShape(r) ==
  /\ r.t = "dict"
  /\ DOMAIN r.v = Fields
  /\ \A f \in {"headline", "body", "cta"} : r.v[f].t = "str"
  /\ r.v.hashtags.t = "list"
  /\ \A i \in 1..Len(r.v.hashtags.v) : r.v.hashtags.v[i].t = "str"

\* the same set of fields holding the same kind of value
SameShape(r1, r2) ==
  /\ r1.t = r2.t
  /\ r1.t = "dict" => /\ DOMAIN r1.v = DOMAIN r2.v
                      /\ \A f \in DOMAIN r1.v : r1.v[f].t = r2.v[f].t

NoCredential == args.api_key \in {PyNone, PyStr("")}

\* the outbound call was made and raised
CallRaised ==
  /\ calls = 1
  /\ \E e \in CallErrors : errors = <<"Error generating content: " \o e>>

\* the outbound call returned text that does not decode as JSON
ReturnedNonJson == calls = 1 /\ content.t = "str" /\ ~json_loads(content).ok

FallbackPlaceholder ==
  PyStr("Discover the incredible " \o args.product_name \o ". Perfect for "
          \o args.audience \o ". Experience the difference today!")

\* the first n elements of keyword list k, as hashtags h
IsKeywordPrefix(h, k, n) ==
  /\ h.t = "list"
  /\ Len(h.v) = (IF Len(k) < n THEN Len(k) ELSE n)
  /\ \A i \in 1..Len(h.v) : h.v[i] = PyStr(k[i])

\* C1 (as claimed): whatever the credential, the brief and the collaborator do,
\* generate_content returns a record whose headline, body, cta and hashtags are
\* all present and non-null; never None, never a record missing a field.
C1_AlwaysCompleteRecord == Returned => IsComplete(result)

C4_FallbackBodyIsRawText ==
  (Returned /\ ReturnedNonJson)
    => (path = "FallbackParsed" /\ result.t = "dict" /\ result.v.body = content)

\* C4 (amended): when the collaborator returns text that does not decode as JSON,
\* the result is the fallback record; its body equals the raw text when that text
\* is not empty, and is the placeholder sentence built from the product name and
\* the audience when the text is the empty string.
C4_FallbackBodyIsRawTextUnlessEmpty ==
  (Returned /\ ReturnedNonJson)
    => /\ path = "FallbackParsed"
       /\ HasCopyShape(result)
       /\ result.v.body = (IF content.v # "" THEN content ELSE FallbackPlaceholder)

C4_Witness ==
  /\ Returned
  /\ content = PyStr("Here is your ad copy: Hydrate smarter!")
  /\ path = "FallbackParsed"
  /\ result.v.body = content

\* C5: generate_content sends at most one request to the collaborator per
\* invocation: none when the credential is absent or empty, and no second one
\* after the first raised or returned malformed output.
C5_AtMostOneCall ==
  /\ calls <= 1
  /\ Len(requests) = calls
  /\ NoCredential => calls = 0
  /\ pc = "awaiting" => calls = 1

C5_Witness ==
  /\ Returned
  /\ calls = 1
  /\ Len(requests) = 1
  /\ path \in {"Demo", "FallbackParsed"}

\* C6 (as claimed): every record generate_content returns carries a provenance tag
\* whose value is LiveGenerated, FallbackParsed or Demo and names the state that
\* produced the record.
C6_ProvenanceTag ==
  (Returned /\ result.t = "dict")
    => /\ "source" \in DOMAIN result.v
       /\ result.v["source"] \in {PyStr("LiveGenerated"), PyStr("FallbackParsed"), PyStr("Demo")}
       /\ result.v["source"] = PyStr(path)

C8_FallbackHashtags ==
  (Returned /\ path = "FallbackParsed")
    => IF Len(args.keywords) = 0
       THEN result.v.hashtags = PyList(<<PyStr("product"), PyStr("sale"), PyStr("new")>>)
       ELSE IsKeywordPrefix(result.v.hashtags, args.keywords, 5)

C8_Witness ==
  /\ Returned
  /\ path = "FallbackParsed"
  /\ Len(args.keywords) > 5
  /\ Len(result.v.hashtags.v) = 5
  /\ result.v.hashtags.v[5] = PyStr(args.keywords[5])

\* C9 (as claimed): in every Demo record hashtags are a prefix of the keywords, of
\* a per-platform length between 3 and 10 (all when fewer), and with no keywords
\* they are a fixed tag set that depends only on the platform, not on the product
\* name, audience or tone.
C9_DemoHashtagsFixedPerPlatform ==
  (Returned /\ path = "Demo")
    => /\ \E n \in 3..10 : IsKeywordPrefix(result.v.hashtags, args.keywords, n)
       /\ Len(args.keywords) = 0 =>
            \A n \in ProductNames, au \in Audiences, t \in Tones :
              DemoRecord([args EXCEPT !.product_name = n, !.audience = au, !.tone = t]).v.hashtags
                = result.v.hashtags

\* C9 (amended): in every Demo record hashtags are the first 5 keywords in their
\* order, whatever the platform (all when fewer); with no keywords they are the
\* product name without spaces and in lower case, then new, sale, quality: a list
\* that depends on the product name and not on the platform, audience or tone.
C9_DemoHashtags ==
  (Returned /\ path = "Demo")
    => IF Len(args.keywords) > 0
       THEN IsKeywordPrefix(result.v.hashtags, args.keywords, 5)
       ELSE /\ result.v.hashtags =
                 PyList(<<PyStr(str_lower(str_remove_spaces(args.product_name))),
                          PyStr("new"), PyStr("sale"), PyStr("quality")>>)
            /\ ~Contains(result.v.hashtags.v[1].v, " ")
            /\ \A p \in Platforms, au \in Audiences, t \in Tones :
                 DemoRecord([args EXCEPT !.platform = p, !.audience = au, !.tone = t]).v.hashtags
                   = result.v.hashtags

C9_Witness ==
  /\ Returned
  /\ path = "Demo"
  /\ args.keywords = <<>>
  /\ args.product_name = "Smart Water Bottle"
  /\ result.v.hashtags.v[1] = PyStr("smartwaterbottle")

\* C10: every Demo record returned for a brief with a non-empty product name has a
\* non-empty headline that contains the product name verbatim and a cta out of
\* the fixed vocabulary {Shop Now, Get Started}.
C10_DemoHeadlineAndCta ==
  (Returned /\ path = "Demo" /\ args.product_name # "")
    => /\ result.v.headline.t = "str"
       /\ result.v.headline.v # ""
       /\ Contains(result.v.headline.v, args.product_name)
       /\ result.v.cta \in {PyStr("Shop Now"), PyStr("Get Started")}

C10_Witness ==
  /\ Returned
  /\ path = "Demo"
  /\ args.product_name = "Smart Water Bottle"
  /\ args.platform = "Google Ads"
  /\ args.tone = "Professional"
  /\ args.audience = "busy professionals"
  /\ Contains(result.v.headline.v, "Smart Water Bottle")
  /\ result.v.cta = PyStr("Get Started")

(***************************************************************************)
(* Properties of extract_keywords                                          *)
(***************************************************************************)
KwDone == kw_pc = "done"

\* the lowercased token stream of the text, stop words removed
KwStream == FilterStopWords(Tokenize(kw_text))

\* position of the first occurrence of w in the stream
FirstPos(words, w) == CHOOSE i \in 1..Len(words) : words[i] = w /\ \A j \in 1..(i - 1) : words[j] # w

\* w1 ranks before w2: more frequent, or as frequent and met first
RanksBefore(words, w1, w2) ==
  \/ Count(words, w1) > Count(words, w2)
  \/ /\ Count(words, w1) = Count(words, w2)
     /\ FirstPos(words, w1) < FirstPos(words, w2)

SeqSet(q) == {q[i] : i \in 1..Len(q)}

LowercaseLetters ==
  {"a", "b", "c", "d", "e", "f", "g", "h", "i", "j", "k", "l", "m",
   "n", "o", "p", "q", "r", "s", "t", "u", "v", "w", "x", "y", "z"}

Digits == {"0", "1", "2", "3", "4", "5", "6", "7", "8", "9"}

\* the maximal runs of 3 or more letters of the lowercased text that are no stop
\* words and do not touch a digit (a run touching a digit is part of a token
\* of letters and digits that contains a digit)
ReferenceTerms(text) ==
  LET s == str_lower(text)
      letter(i) == i >= 1 /\ i <= Len(s) /\ Char(s, i) \in LowercaseLetters
      digit(i) == i >= 1 /\ i <= Len(s) /\ Char(s, i) \in Digits
      runs == {w \in (1..Len(s)) \X (1..Len(s)) :
                 /\ w[2] - w[1] >= 2
                 /\ \A i \in w[1]..w[2] : letter(i)
                 /\ ~letter(w[1] - 1) /\ ~letter(w[2] + 1)
                 /\ ~digit(w[1] - 1) /\ ~digit(w[2] + 1)}
  IN  {SubSeq(s, w[1], w[2]) : w \in runs} \ stop_words

\* C11: for every text and positive top_n the keywords come by descending
\* frequency, equal frequencies in the order of first occurrence in the lowercased
\* token stream, and they are the best-ranked terms of the text; "run run jump
\* jump fly" with top_n = 2 gives run, jump.
C11_RankedByFrequencyThenFirstOccurrence ==
  (KwDone /\ kw_top_n > 0)
    => /\ \A i, j \in 1..Len(kw_result) :
            i < j => RanksBefore(KwStream, kw_result[i], kw_result[j])
       /\ \A w \in SeqSet(KwStream) \ SeqSet(kw_result) :
            \A i \in 1..Len(kw_result) : RanksBefore(KwStream, kw_result[i], w)
       /\ (kw_text = "run run jump jump fly" /\ kw_top_n = 2)
            => kw_result = <<"run", "jump">>

C11_Witness ==
  /\ KwDone
  /\ kw_text = "run run jump jump fly"
  /\ kw_top_n = 2
  /\ kw_result = <<"run", "jump">>

C13_OnlyLowercaseWordsOfThreeOrMore ==
  KwDone =>
    \A i \in 1..Len(kw_result) :
      /\ Len(kw_result[i]) >= 3
      /\ \A k \in 1..Len(kw_result[i]) : Char(kw_result[i], k) \in LowercaseLetters

C13_Witness ==
  /\ KwDone
  /\ kw_text = "up abc123 Run"
  /\ kw_top_n = DefaultTopN
  /\ kw_result = <<"run">>

\* C14 (as claimed): with top_n at least the number of distinct terms, the set of
\* keywords is the set of the maximal runs of 3 or more letters of the lowercased
\* text that are no stop words, runs in a token containing a digit left out; for
\* texts over letters, digits, underscores, hyphens, spaces and punctuation.
C14_KeywordsAreTheLetterRuns ==
  (KwDone /\ kw_top_n > 0 /\ kw_top_n >= Cardinality(ReferenceTerms(kw_text)))
    => SeqSet(kw_result) = ReferenceTerms(kw_text)

(***************************************************************************)
(* Properties of the generated_content table                               *)
(***************************************************************************)
\* the ids of the rows get_user_content_history(u) returns
HistoryIds(u) ==
  LET h == DbHistory(rows, u, HistoryLimit) IN {h[i][1] : i \in 1..Len(h)}

\* the last call was delete_content(content_id, v) and v does not own a row
\* content_id of table
DeleteByNonOwner(op, table) ==
  /\ op.op = "delete"
  /\ ~ \E i \in 1..Len(table) : table[i].id = op.id /\ table[i].user_id = op.user_id

\* C15: after any sequence of save_content_to_db and delete_content calls for
\* any users, get_user_content_history(u) returns only rows saved with user_id
\* u and not deleted by u since, and a delete_content(content_id, v) whose v
\* does not own row content_id leaves every stored row unchanged
C15_HistoryIsOwnAndDeleteNeedsOwner ==
  /\ [](\A u \in Users : \A id \in HistoryIds(u) :
          <<id, u>> \in saved /\ id \notin deleted)
  /\ [][DeleteByNonOwner(last_op', rows) => rows' = rows]_vars

\* a user asked to delete a row of another user, the row is still stored, an
\* owner has deleted a row before, and both users have history
C15_Witness ==
  /\ last_op.op = "delete"
  /\ \E i \in 1..Len(rows) : rows[i].id = last_op.id /\ rows[i].user_id # last_op.user_id
  /\ deleted # {}
  /\ \A u \in Users : HistoryIds(u) # {}

(***************************************************************************)
(* Properties of the browser session                                       *)
(***************************************************************************)
\* session_state['generated_content'] and ['content_metadata'], if set
Shown(s) ==
  IF "generated_content" \in DOMAIN s
    THEN <<s.generated_content, s.content_metadata>>
    ELSE <<>>

\* the last script run was a press of Generate with an empty product name
EmptyNamePress(run) == run.event = "generate" /\ run.product_name = ""

\* C16: pressing Generate with an empty product name calls neither
\* generate_content nor save_content_to_db and leaves
\* session_state['generated_content'], session_state['content_metadata'] and
\* the stored rows unchanged, so generate_content is never invoked with an
\* empty product name
C16_EmptyNameDoesNothing ==
  /\ [](last_run.generate_calls > 0 => last_run.product_name # "")
  /\ [][EmptyNamePress(last_run') =>
          /\ last_run'.generate_calls = 0
          /\ last_run'.save_calls = 0
          /\ Shown(session') = Shown(session)
          /\ rows' = rows]_vars

\* Generate was pressed with an empty product name while content of an earlier
\* press is on the page and a row is stored
C16_Witness ==
  /\ EmptyNamePress(last_run)
  /\ Shown(session) # <<>>
  /\ rows # <<>>

\* C17: across any sequence of login, generate, logout and login actions in
\* one browser session, the generated content on the Generate Content page was
\* produced while the user now logged in was logged in; after a logout and a
\* login as another user no content of the previous user is shown or offered
\* for export
C17_ShownContentIsOfCurrentUser ==
  (session.logged_in /\ Shown(session) # <<>>) => shown_owner = session.user_id

====
